---- MODULE Spec2Model ----
(***************************************************************************)
(* Model of the survey pipeline: preprocessing.py (steps 1-19) followed by *)
(* standardization.py (steps 1-8), run over the files of data/.            *)
(*                                                                         *)
(* A cell is <<>> (missing: NaN / pd.NA / empty CSV field) or <<v>>.       *)
(* A file is [exists, cols, rows]; a DataFrame is [cols, index, rows],     *)
(* where rows[i] maps each column name to a cell and index[i] is the row   *)
(* label.  to_csv(index=False) drops the index, read_csv numbers the rows  *)
(* 0..n-1 again.                                                           *)
(* The Engagement Intention Score is held in hundredths (10.81 is 1081).   *)
(* statistics.py (steps 1-6) reads data/original.xlsx and prints a report; *)
(* console is what the scripts have printed.                               *)
(* io records, for the current execution of the scripts, the files written *)
(* and each read of a file with the state the file was in.                 *)
(***************************************************************************)
EXTENDS Integers, Sequences, FiniteSets, TLC

VARIABLES pc, fs, mem, abortedAt, run, fsStart, console, io

vars == <<pc, fs, mem, abortedAt, run, fsStart, console, io>>

\* ------------------------------------------------------------------ bounds
\* Largest number of rows of an input table.
MaxRows == 2

\* ------------------------------------------------------------------- cells
NA == <<>>

V(x) == <<x>>

IsNA(c) == c = NA

Range(s) == {s[i] : i \in DOMAIN s}

RECURSIVE SumSeq(_)
SumSeq(s) == IF s = <<>> THEN 0 ELSE Head(s) + SumSeq(Tail(s))

\* -------------------------------------------------------------- DataFrames
EmptyFrame == [cols |-> <<>>, index |-> <<>>, rows |-> <<>>]

Absent == [exists |-> FALSE, cols |-> <<>>, rows |-> <<>>]

NRows(f) == Len(f.rows)

HasCol(f, c) == c \in Range(f.cols)

HasCols(f, cs) == cs \subseteq Range(f.cols)

\* pd.read_csv / pd.read_excel: the stored table with a fresh RangeIndex.
ReadCsv(file) ==
    [cols |-> file.cols,
     index |-> [i \in 1..Len(file.rows) |-> i - 1],
     rows |-> file.rows]

\* Mutant: to_csv(mode='a'), the rows added to those already in the file.
ToCsvAppend(old, f) ==
    [exists |-> TRUE,
     cols |-> f.cols,
     rows |-> IF old.exists /\ old.cols = f.cols THEN old.rows \o f.rows ELSE f.rows]

\* DataFrame.to_csv(path, index=False): the whole file is replaced by the
\* header and the rows; the index is not stored.
ToCsv(old, f) == [exists |-> TRUE, cols |-> f.cols, rows |-> f.rows]

\* df[mask]: the rows whose mask is True, in order, keeping their labels.
Filter(f, Keep(_)) ==
    LET idx == SelectSeq([i \in 1..Len(f.rows) |-> i], LAMBDA i : Keep(f.rows[i]))
    IN [cols |-> f.cols,
        index |-> [j \in 1..Len(idx) |-> f.index[idx[j]]],
        rows |-> [j \in 1..Len(idx) |-> f.rows[idx[j]]]]

\* df.drop(columns=..., errors='ignore'): absent names are skipped.
DropIgnore(f, drop) ==
    LET keep == SelectSeq(f.cols, LAMBDA c : c \notin drop)
    IN [cols |-> keep,
        index |-> f.index,
        rows |-> [i \in 1..Len(f.rows) |-> [c \in Range(keep) |-> f.rows[i][c]]]]

\* df[[...]]: the listed columns in the listed order (KeyError when one is
\* absent: the caller checks HasCols first).
SelectCols(f, sel) ==
    [cols |-> sel,
     index |-> f.index,
     rows |-> [i \in 1..Len(f.rows) |-> [c \in Range(sel) |-> f.rows[i][c]]]]

\* df.rename(columns=m): m maps some old names to new ones.
RenameCols(f, m) ==
    LET New(c) == IF c \in DOMAIN m THEN m[c] ELSE c
        Old(d) == CHOOSE c \in Range(f.cols) : New(c) = d
    IN [cols |-> [i \in 1..Len(f.cols) |-> New(f.cols[i])],
        index |-> f.index,
        rows |-> [i \in 1..Len(f.rows) |->
                    [d \in {New(c) : c \in Range(f.cols)} |-> f.rows[i][Old(d)]]]]

\* df[name] = vals: an existing column is replaced in place, a new one is
\* appended as the last column.
SetCol(f, name, vals) ==
    LET cols2 == IF HasCol(f, name) THEN f.cols ELSE Append(f.cols, name)
    IN [cols |-> cols2,
        index |-> f.index,
        rows |-> [i \in 1..Len(f.rows) |->
                    [c \in Range(cols2) |-> IF c = name THEN vals[i] ELSE f.rows[i][c]]]]

\* df.reset_index(drop=True)
ResetIndex(f) == [f EXCEPT !.index = [i \in 1..Len(f.rows) |-> i - 1]]

Column(f, c) == [i \in 1..Len(f.rows) |-> f.rows[i][c]]

\* ------------------------------------------------------------------- files
F_original == "original.xlsx"
F_IG_only == "IG_only.csv"
F_Q2 == "Q2.csv"
F_Q3 == "Q3.csv"
F_Cleaned_Q2 == "Cleaned_Q2.csv"
F_Cleaned_Q3 == "Cleaned_Q3.csv"
F_Q2_PostInfo == "Cleaned_Q2_withPostInfo.csv"
F_Q3_PostInfo == "Cleaned_Q3_withPostInfo.csv"
F_Final_Post1 == "Cleaned_Q2_Final_Post1.csv"
F_Final_Post2 == "Cleaned_Q3_Final_Post2.csv"
F_Score_Post1 == "Cleaned_Q2_Post1_WithEngagementScore.csv"
F_Score_Post2 == "Cleaned_Q3_Post2_WithEngagementScore.csv"
F_merged == "merged_data.csv"
F_merged_all == "merged_data_with_all_columns.csv"
F_FINAL == "FINAL_data_for_regression.csv"

\* The files preprocessing.py writes, in the order it writes them.
PreprocessingOutputs ==
    <<F_IG_only, F_Q2, F_Q3, F_Cleaned_Q2, F_Cleaned_Q3, F_Q2_PostInfo,
      F_Q3_PostInfo, F_Final_Post1, F_Final_Post2, F_Score_Post1,
      F_Score_Post2, F_merged, F_merged_all>>

Files == {F_original, F_FINAL} \cup Range(PreprocessingOutputs)

\* ------------------------------------------------ preprocessing.py: steps
columns_to_remove_q2 == {"P301_CP", "P301", "P306", "P302", "P303", "P304", "P305"}

columns_to_remove_q3 == {"P201_CP", "P201", "P206", "P202", "P203", "P204", "P205"}

\* df['P101'] == 1 (a missing value compares unequal).
IsInstagram(row) == row["P101"] = V(1)

\* Mutant: the attention check alone, without the interest filter.
AttentionFilterCheckOnly(f, check, pass, interest) ==
    Filter(f, LAMBDA r : r[check] = V(pass))

\* Steps 8 and 9: df[df[check] == pass], then df[df[interest].isin([3, 4, 5])].
AttentionFilter(f, check, pass, interest) ==
    Filter(Filter(f, LAMBDA r : r[check] = V(pass)),
           LAMBDA r : r[interest] \in {V(3), V(4), V(5)})

\* Step 10: post code -> <<caption length, hashtags>>.
coding_scheme ==
    1 :> <<5, 5>> @@ 2 :> <<70, 5>> @@ 3 :> <<140, 5>> @@ 4 :> <<200, 5>> @@
    5 :> <<5, 11>> @@ 6 :> <<70, 11>> @@ 7 :> <<140, 11>> @@ 8 :> <<200, 11>> @@
    9 :> <<5, 15>> @@ 10 :> <<70, 15>> @@ 11 :> <<140, 15>> @@ 12 :> <<200, 15>>

\* Mutant: the last key of the scheme is not recognised.
IsValidPostOffByOne(cell) == cell \in {V(k) : k \in 1..11}

\* mask = df[post_col].isin(coding_scheme.keys())
IsValidPost(cell) == cell \in {V(k) : k \in DOMAIN coding_scheme}

\* Step 11: both columns start as pd.NA and are filled where the mask holds.
add_post_info(f, post_col) ==
    LET derived(k) == [i \in 1..Len(f.rows) |->
                         IF IsValidPost(f.rows[i][post_col])
                         THEN V(coding_scheme[f.rows[i][post_col][1]][k])
                         ELSE NA]
    IN SetCol(SetCol(f, "Caption_Length", derived(1)), "Hashtags", derived(2))

\* The number print reports as "Valid mappings: mask.sum() / len(df)".
ValidMappings(f, post_col) ==
    Cardinality({i \in 1..Len(f.rows) : IsValidPost(f.rows[i][post_col])})

\* Steps 14 and 15: the select list, the rename map and the final order.
SelectPost1 ==
    <<"SD01", "SD02_01", "SD10", "P201", "P202", "P203", "P204", "P205", "P206",
      "Caption_Length", "Hashtags">>

SelectPost2 ==
    <<"SD01", "SD02_01", "SD10", "P301", "P302", "P303", "P304", "P305", "P306",
      "Caption_Length", "Hashtags">>

RenamePost1 ==
    "SD01" :> "Gender" @@ "SD02_01" :> "Age" @@ "SD10" :> "Occupation" @@
    "P201" :> "Image Drawn" @@ "P206" :> "Selection Criteria" @@
    "P202" :> "Post Interest" @@ "P203" :> "Like Possibility" @@
    "P204" :> "Comment Possibility" @@ "P205" :> "Share Possibility"

RenamePost2 ==
    "SD01" :> "Gender" @@ "SD02_01" :> "Age" @@ "SD10" :> "Occupation" @@
    "P301" :> "Image Drawn" @@ "P306" :> "Selection Criteria" @@
    "P302" :> "Post Interest" @@ "P303" :> "Like Possibility" @@
    "P304" :> "Comment Possibility" @@ "P305" :> "Share Possibility"

FinalColumns ==
    <<"RowID", "Gender", "Age", "Occupation", "Post", "Image Drawn",
      "Post Interest", "Like Possibility", "Comment Possibility",
      "Share Possibility", "Caption_Length", "Hashtags">>

\* f"{label}_{x}" for the row label x.
RowIDs(f, label) == [i \in 1..Len(f.rows) |-> V(label \o "_" \o ToString(f.index[i]))]

Constant(f, v) == [i \in 1..Len(f.rows) |-> V(v)]

FinalPost(f, sel, ren, post, label) ==
    LET renamed == RenameCols(SelectCols(f, sel), ren)
        withPost == SetCol(renamed, "Post", Constant(renamed, post))
        withId == SetCol(withPost, "RowID", RowIDs(withPost, label))
    IN SelectCols(withId, FinalColumns)

\* Steps 16 and 17.  The weights in thousandths.
W_Like == 847

W_Comment == 941

W_Share == 920

\* Mutant: the Like and Share weights exchanged.
WeightedSumSwapped(like, comment, share) ==
    W_Share * like + W_Comment * comment + W_Like * share

\* like * 0.847 + comment * 0.941 + share * 0.920, in thousandths.
WeightedSum(like, comment, share) == W_Like * like + W_Comment * comment + W_Share * share

\* The sums (in thousandths, answers 1..5) that end in 5 and whose binary64
\* value, times 100, lies at or above the midpoint after rint: 3.555, 5.395,
\* 6.315 and 7.235 round up, the other sums ending in 5 round down.
TiesAbove == {3555, 5395, 6315, 7235}

\* Series.round(2): thousandths to hundredths.
Round2(t) ==
    IF t % 10 > 5 \/ (t % 10 = 5 /\ t \in TiesAbove) THEN t \div 10 + 1 ELSE t \div 10

\* Mutant: missing answers filled with 0 before the sum.
EngagementScoreZeroFill(like, comment, share) ==
    LET z(c) == IF IsNA(c) THEN 0 ELSE c[1]
    IN V(Round2(WeightedSum(z(like), z(comment), z(share))))

\* NaN in any operand makes the sum, and its rounding, NaN.
EngagementScore(like, comment, share) ==
    IF IsNA(like) \/ IsNA(comment) \/ IsNA(share)
    THEN NA
    ELSE V(Round2(WeightedSum(like[1], comment[1], share[1])))

ScoreColumns == {"Like Possibility", "Comment Possibility", "Share Possibility"}

AddEngagementScore(f) ==
    SetCol(f, "Engagement Intention Score",
           [i \in 1..Len(f.rows) |->
              EngagementScore(f.rows[i]["Like Possibility"],
                              f.rows[i]["Comment Possibility"],
                              f.rows[i]["Share Possibility"])])

\* Mutant: pd.concat without ignore_index, each row keeping its label.
ConcatKeepIndex(a, b) ==
    [cols |-> a.cols, index |-> a.index \o b.index, rows |-> a.rows \o b.rows]

\* Step 18.  pd.concat([df1, df2], ignore_index=True): the rows of df1 then
\* those of df2, labelled 0..n-1.
Concat(a, b) ==
    [cols |-> a.cols,
     index |-> [i \in 1..(Len(a.rows) + Len(b.rows)) |-> i - 1],
     rows |-> a.rows \o b.rows]

\* Mutant: the column names compared as sets.
ColumnsMatchAsSets(a, b) == Range(a.cols) = Range(b.cols)

\* if list(df1.columns) == list(df2.columns)
ColumnsMatch(a, b) == a.cols = b.cols

MergePosts(a, b) ==
    LET merged == Concat(a, b)
        withId == SetCol(merged, "RowID", RowIDs(merged, "Row"))
        cols == <<"RowID">> \o SelectSeq(withId.cols, LAMBDA c : c # "RowID")
    IN SelectCols(withId, cols)

\* Step 19.
Mul(x, y) == IF IsNA(x) \/ IsNA(y) THEN NA ELSE V(x[1] * y[1])

AddPolynomialTerms(f) ==
    LET cap == Column(f, "Caption_Length")
        tag == Column(f, "Hashtags")
        n == Len(f.rows)
        f1 == SetCol(f, "Hashtags^2", [i \in 1..n |-> Mul(tag[i], tag[i])])
        f2 == SetCol(f1, "Caption_Length^2", [i \in 1..n |-> Mul(cap[i], cap[i])])
        f3 == SetCol(f2, "Caption_Length_x_Hashtags", [i \in 1..n |-> Mul(cap[i], tag[i])])
    IN SetCol(f3, "(Caption_Length_x_Hashtags)^2",
              [i \in 1..n |-> Mul(Mul(cap[i], tag[i]), Mul(cap[i], tag[i]))])

\* --------------------------------------------- standardization.py: steps
to_standardize ==
    <<"Age", "Post Interest", "Like Possibility", "Comment Possibility",
      "Share Possibility", "Caption_Length", "Hashtags",
      "Engagement Intention Score">>

categorical == <<"Gender", "Occupation", "Post", "Image Drawn">>

\* The values of a column that are not missing.
Present(col) ==
    LET kept == SelectSeq(col, LAMBDA c : ~IsNA(c))
    IN [i \in 1..Len(kept) |-> kept[i][1]]

\* m * (x - mean) for the m values xs.
Dev(x, xs) == Len(xs) * x - SumSeq(xs)

SumSqDev(xs) == SumSeq([i \in 1..Len(xs) |-> Dev(xs[i], xs) * Dev(xs[i], xs)])

\* Mutant: the sum of squared deviations divided by m - 1 (ddof = 1).
ScaledVarianceUnbiased(xs) == [num |-> SumSqDev(xs), den |-> Len(xs) - 1]

\* StandardScaler's variance of the m values xs, times m * m, as num / den:
\* the scaler divides the sum of squared deviations by m (np.var, ddof = 0).
ScaledVariance(xs) == [num |-> SumSqDev(xs), den |-> Len(xs)]

Sign(d) == IF d > 0 THEN 1 ELSE IF d < 0 THEN -1 ELSE 0

\* (x - mean) / scale, held as its sign and its square sqnum / sqden; a
\* column of zero variance is scaled by 1, which leaves 0.
ZScore(x, xs) ==
    LET v == ScaledVariance(xs)
        d == Dev(x, xs)
    IN IF v.num = 0
       THEN [sign |-> 0, sqnum |-> 0, sqden |-> 1]
       ELSE [sign |-> Sign(d), sqnum |-> d * d * v.den, sqden |-> v.num]

\* scaler.fit_transform(df[to_standardize]) as a frame of z_ columns; missing
\* values are left out of the fit and stay missing.
Standardize(f) ==
    [cols |-> [k \in 1..Len(to_standardize) |-> "z_" \o to_standardize[k]],
     index |-> [i \in 1..Len(f.rows) |-> i - 1],
     rows |-> [i \in 1..Len(f.rows) |->
                 [c \in {"z_" \o to_standardize[k] : k \in 1..Len(to_standardize)} |->
                    LET src == to_standardize[CHOOSE k \in 1..Len(to_standardize) :
                                                 "z_" \o to_standardize[k] = c]
                    IN IF IsNA(f.rows[i][src])
                       THEN NA
                       ELSE V(ZScore(f.rows[i][src][1], Present(Column(f, src))))]]]

\* The dtype read_csv gives a column of integer codes: object when there is no
\* row to infer from, float64 when a value is missing, int64 otherwise.
Dtype(f, c) ==
    IF Len(f.rows) = 0 THEN "object"
    ELSE IF \E i \in 1..Len(f.rows) : IsNA(f.rows[i][c]) THEN "float64"
    ELSE "int64"

RECURSIVE SortedSeq(_)
SortedSeq(S) ==
    IF S = {} THEN <<>>
    ELSE LET m == CHOOSE x \in S : \A y \in S : x <= y
         IN <<m>> \o SortedSeq(S \ {m})

DummyName(c, v) == c \o "_" \o ToString(v)

\* The categories of column c that get an indicator: all but the first of
\* the sorted observed values (drop_first=True).
DummyValues(f, c) ==
    LET cats == SortedSeq(Range(Present(Column(f, c))))
    IN IF cats = <<>> THEN <<>> ELSE Tail(cats)

RECURSIVE AddDummies(_, _, _, _)
AddDummies(out, f, c, vals) ==
    IF vals = <<>> THEN out
    ELSE AddDummies(SetCol(out, DummyName(c, Head(vals)),
                           [i \in 1..Len(f.rows) |->
                              IF f.rows[i][c] = V(Head(vals)) THEN V(1) ELSE V(0)]),
                    f, c, Tail(vals))

RECURSIVE EncodeColumns(_, _, _)
EncodeColumns(out, f, cs) ==
    IF cs = <<>> THEN out
    ELSE EncodeColumns(AddDummies(out, f, Head(cs), DummyValues(f, Head(cs))), f, Tail(cs))

\* pd.get_dummies(df[categorical], drop_first=True, dtype=int) with no columns
\* argument: only the columns of dtype object (string, category) are encoded;
\* the numeric columns are kept as they are, ahead of the indicators.
get_dummies(f) ==
    LET encoded == SelectSeq(f.cols, LAMBDA c : Dtype(f, c) = "object")
    IN EncodeColumns(DropIgnore(f, Range(encoded)), f, encoded)

\* pd.concat([a, b], axis=1) of frames with the same RangeIndex.
ConcatColumns(a, b) ==
    [cols |-> a.cols \o b.cols,
     index |-> a.index,
     rows |-> [i \in 1..Len(a.rows) |->
                 [c \in Range(a.cols) \cup Range(b.cols) |->
                    IF c \in Range(b.cols) THEN b.rows[i][c] ELSE a.rows[i][c]]]]

\* Step 6: the untouched columns, the z-scores, the dummies.
Combine(df, z_data, dummy_data) ==
    ConcatColumns(
        ConcatColumns(
            ResetIndex(DropIgnore(df, Range(to_standardize) \cup Range(categorical))),
            z_data),
        dummy_data)

\* Step 7: powers and products of z-scores, kept as terms.
ZSq(x) == IF IsNA(x) THEN NA ELSE V(<<"sq", x[1]>>)

ZMul(x, y) == IF IsNA(x) \/ IsNA(y) THEN NA ELSE V(<<"mul", x[1], y[1]>>)

AddZTerms(f) ==
    LET cap == Column(f, "z_Caption_Length")
        tag == Column(f, "z_Hashtags")
        n == Len(f.rows)
        f1 == SetCol(f, "z_Caption_Length_sq", [i \in 1..n |-> ZSq(cap[i])])
        f2 == SetCol(f1, "z_Hashtags_sq", [i \in 1..n |-> ZSq(tag[i])])
        f3 == SetCol(f2, "z_Caption_x_Hashtags", [i \in 1..n |-> ZMul(cap[i], tag[i])])
    IN SetCol(f3, "z_Caption_x_Hashtags_sq", [i \in 1..n |-> ZSq(ZMul(cap[i], tag[i]))])

\* ------------------------------------------------------------ statistics.py
\* A TIME_SUM cell holds Number(n), a number or a text that parses as one,
\* or Text, a text that does not.
Number(n) == V([numeric |-> TRUE, value |-> n])

Text == V([numeric |-> FALSE, value |-> 0])

\* pd.read_excel(file_path, skiprows=[1]): line 1 of the sheet, the first
\* row under the header, is not read.
ReadExcelSkipRow1(file) ==
    ReadCsv([file EXCEPT !.rows = IF @ = <<>> THEN <<>> ELSE Tail(@)])

\* df['FINISHED'] == 1.
IsFinished(row) == row["FINISHED"] = V(1)

\* len(df[df['FINISHED'] == 1]).
finished_cases(df) == NRows(Filter(df, IsFinished))

\* sorted(df[col].dropna().astype(int).unique()).
all_codes(df, col) == SortedSeq(Range(Present(Column(df, col))))

\* An element of df['P201'] != df['P301']: NaN is unequal to everything,
\* itself included.
Differs(a, b) == IsNA(a) \/ IsNA(b) \/ a # b

\* (df['P201'] != df['P301']).sum(), over every row of df.
different_codes(df) ==
    Cardinality({i \in 1..NRows(df) : Differs(df.rows[i]["P201"], df.rows[i]["P301"])})

\* round(different / finished * 100, 1) if finished > 0 else 0, in tenths of
\* a percent.  A quotient halfway between two tenths needs finished to be
\* a multiple of 16.
different_codes_pct(different, finished) ==
    IF finished > 0 THEN (2000 * different + finished) \div (2 * finished) ELSE 0

\* pd.to_numeric(..., errors='coerce'): what does not parse becomes NaN.
to_numeric(cell) ==
    IF IsNA(cell) \/ ~cell[1].numeric THEN NA ELSE V(cell[1].value)

\* The values in ascending order, repeated values kept.
RECURSIVE Sort(_)
Sort(xs) ==
    IF xs = <<>> THEN <<>>
    ELSE LET k == CHOOSE i \in 1..Len(xs) : \A j \in 1..Len(xs) : xs[i] <= xs[j]
         IN <<xs[k]>> \o Sort([i \in 1..(Len(xs) - 1) |-> IF i < k THEN xs[i] ELSE xs[i + 1]])

\* The numeric TIME_SUM values of the finished cases.
finished_times(df) ==
    LET finished_df == Filter(df, IsFinished)
    IN Present([i \in 1..NRows(finished_df) |-> to_numeric(finished_df.rows[i]["TIME_SUM"])])

\* "{x:.0f}" of x = v4 / 4: the nearest integer, the even one at a tie.
Format0f(v4) ==
    LET q == v4 \div 4
        r == v4 % 4
    IN IF r < 2 THEN q
       ELSE IF r > 2 THEN q + 1
       ELSE IF q % 2 = 0 THEN q ELSE q + 1

\* Series.quantile(k / 4) (linear interpolation) and Series.median() (k = 2)
\* over the values that are not NaN, as printed with .0f; NaN when there is
\* none.
Quantile(xs, k) ==
    IF xs = <<>> THEN NA
    ELSE LET sorted == Sort(xs)
             pos4 == (Len(xs) - 1) * k
             lo == pos4 \div 4 + 1
             frac4 == pos4 % 4
         IN V(Format0f(IF frac4 = 0 THEN 4 * sorted[lo]
                       ELSE (4 - frac4) * sorted[lo] + frac4 * sorted[lo + 1]))

\* Series.mean() as printed with .2f, in hundredths; NaN when there is no
\* value.  A mean halfway between two hundredths needs a multiple of 8
\* values.
Mean(xs) ==
    IF xs = <<>> THEN NA
    ELSE V((200 * SumSeq(xs) + Len(xs)) \div (2 * Len(xs)))

\* Step 2.
Counts(df) == [total_cases |-> NRows(df), finished_cases |-> finished_cases(df)]

\* Step 3.
Randomization(df, finished) ==
    [all_codes_p201 |-> all_codes(df, "P201"),
     all_codes_p301 |-> all_codes(df, "P301"),
     different_codes |-> different_codes(df),
     different_codes_pct |-> different_codes_pct(different_codes(df), finished)]

\* Step 4.
CompletionTime(df) ==
    [median_time |-> Quantile(finished_times(df), 2),
     q25_time |-> Quantile(finished_times(df), 1),
     q75_time |-> Quantile(finished_times(df), 3)]

\* Step 5.
Missingness(df) == [missing_percent_mean |-> Mean(Present(Column(df, "MISSING")))]

\* Step 6: the report, six findings.
Section44(found) == [what |-> "FOR SECTION 4.4"] @@ found

\* What statistics.py prints for a sheet that holds the columns it names.
ReportOf(file) ==
    LET df == ReadExcelSkipRow1(file)
    IN Section44(Missingness(df) @@ CompletionTime(df)
                 @@ Randomization(df, finished_cases(df)) @@ Counts(df))

\* ------------------------------------------------------------------ actions
EmptyMem ==
    [df |-> EmptyFrame, df_ig |-> EmptyFrame, df_main |-> EmptyFrame,
     z_data |-> EmptyFrame, dummy_data |-> EmptyFrame, df_ready |-> EmptyFrame,
     found |-> <<>>]

\* An uncaught exception: the interpreter exits, nothing more is written.
Raise(step) ==
    /\ pc' = "aborted"
    /\ abortedAt' = step
    /\ UNCHANGED <<fs, mem>>

Write(file, f) == fs' = [fs EXCEPT ![file] = ToCsv(fs[file], f)]

\* Nothing read or written yet.
NoIO == [written |-> {}, read |-> {}]

\* A file as a step finds it: written by this execution, left in data/
\* from before, or not there.
FoundAs(file) ==
    IF ~fs[file].exists THEN "missing"
    ELSE IF file \in io.written THEN "written"
    ELSE "left over"

\* The step at pc opens the files reads and saves the files writes.
Access(reads, writes) ==
    io' = [written |-> io.written \cup writes,
           read |-> io.read \cup {[by |-> pc, file |-> f, was |-> FoundAs(f)] : f \in reads}]

\* A step that reads one file, transforms it, writes one file and then
\* prints Lines(the table read).
PrintingFileStep(here, next, inFile, Needs, Transform(_), outFile, Lines(_)) ==
    /\ pc = here
    /\ UNCHANGED <<run, fsStart>>
    /\ IF ~fs[inFile].exists \/ ~HasCols(ReadCsv(fs[inFile]), Needs)
       THEN Raise(here) /\ UNCHANGED console /\ Access({inFile}, {})
       ELSE /\ Write(outFile, Transform(ReadCsv(fs[inFile])))
            /\ Access({inFile}, {outFile})
            /\ console' = console \o Lines(ReadCsv(fs[inFile]))
            /\ pc' = next
            /\ UNCHANGED <<mem, abortedAt>>

\* A step whose prints are the row counts only (not kept in console).
FileStep(here, next, inFile, Needs, Transform(_), outFile) ==
    PrintingFileStep(here, next, inFile, Needs, Transform, outFile, LAMBDA f : <<>>)

\* Steps 1 and 2: df = pd.read_excel(input_file).
Step1 ==
    /\ pc = "step1"
    /\ UNCHANGED <<run, fsStart, console>>
    /\ Access({F_original}, {})
    /\ IF ~fs[F_original].exists
       THEN Raise("step1")
       ELSE /\ mem' = [mem EXCEPT !.df = ReadCsv(fs[F_original])]
            /\ pc' = "step3"
            /\ UNCHANGED <<fs, abortedAt>>

\* Step 3: df_ig = df[df['P101'] == 1].
Step3 ==
    /\ pc = "step3"
    /\ UNCHANGED <<run, fsStart, console, io>>
    /\ IF ~HasCol(mem.df, "P101")
       THEN Raise("step3")
       ELSE /\ mem' = [mem EXCEPT !.df_ig = Filter(mem.df, IsInstagram)]
            /\ pc' = "step4"
            /\ UNCHANGED <<fs, abortedAt>>

\* Step 4: df_ig.to_csv('data/IG_only.csv', index=False).
Step4 ==
    /\ pc = "step4"
    /\ Write(F_IG_only, mem.df_ig)
    /\ Access({}, {F_IG_only})
    /\ pc' = "step5"
    /\ UNCHANGED <<mem, abortedAt, run, fsStart, console>>

\* Step 5: df_main = df[df['P101'] == 1].
Step5 ==
    /\ pc = "step5"
    /\ UNCHANGED <<run, fsStart, console, io>>
    /\ IF ~HasCol(mem.df, "P101")
       THEN Raise("step5")
       ELSE /\ mem' = [mem EXCEPT !.df_main = Filter(mem.df, IsInstagram)]
            /\ pc' = "step6"
            /\ UNCHANGED <<fs, abortedAt>>

\* Mutant: drop without errors='ignore' raises for an absent column.
Step6Strict ==
    /\ pc = "step6"
    /\ UNCHANGED <<run, fsStart, console>>
    /\ IF ~HasCols(mem.df_main, columns_to_remove_q2)
       THEN Raise("step6") /\ UNCHANGED io
       ELSE /\ Write(F_Q2, DropIgnore(mem.df_main, columns_to_remove_q2))
            /\ Access({}, {F_Q2})
            /\ pc' = "step7"
            /\ UNCHANGED <<mem, abortedAt>>

\* Mutant: Q2.csv is not saved.
Step6NoSave ==
    /\ pc = "step6"
    /\ pc' = "step7"
    /\ UNCHANGED <<fs, mem, abortedAt, run, fsStart, console, io>>

\* Step 6: drop the Q3 block (errors='ignore') and write Q2.csv.
Step6 ==
    /\ pc = "step6"
    /\ Write(F_Q2, DropIgnore(mem.df_main, columns_to_remove_q2))
    /\ Access({}, {F_Q2})
    /\ pc' = "step7"
    /\ UNCHANGED <<mem, abortedAt, run, fsStart, console>>

\* Step 7: drop the Q2 block (errors='ignore') and write Q3.csv.
Step7 ==
    /\ pc = "step7"
    /\ Write(F_Q3, DropIgnore(mem.df_main, columns_to_remove_q3))
    /\ Access({}, {F_Q3})
    /\ pc' = "step8"
    /\ UNCHANGED <<mem, abortedAt, run, fsStart, console>>

Step8 ==
    FileStep("step8", "step9", F_Q2, {"P206", "P202"},
             LAMBDA f : AttentionFilter(f, "P206", 3, "P202"), F_Cleaned_Q2)

Step9 ==
    FileStep("step9", "step12", F_Q3, {"P306", "P302"},
             LAMBDA f : AttentionFilter(f, "P306", 1, "P302"), F_Cleaned_Q3)

\* Mutant: add_post_info saves the table before it looks up post_col.
Step12WriteThenRaise ==
    /\ pc = "step12"
    /\ UNCHANGED <<run, fsStart, console>>
    /\ IF ~fs[F_Cleaned_Q2].exists
       THEN Raise("step12") /\ Access({F_Cleaned_Q2}, {})
       ELSE /\ Access({F_Cleaned_Q2}, {F_Q2_PostInfo})
            /\ Write(F_Q2_PostInfo,
                     IF HasCol(ReadCsv(fs[F_Cleaned_Q2]), "P201")
                     THEN add_post_info(ReadCsv(fs[F_Cleaned_Q2]), "P201")
                     ELSE ReadCsv(fs[F_Cleaned_Q2]))
            /\ pc' = IF HasCol(ReadCsv(fs[F_Cleaned_Q2]), "P201") THEN "step13" ELSE "aborted"
            /\ abortedAt' = IF HasCol(ReadCsv(fs[F_Cleaned_Q2]), "P201") THEN abortedAt ELSE "step12"
            /\ UNCHANGED mem

\* print(f" - Valid mappings: {mask.sum()} / {len(df)}\n"), after the file
\* is saved.
ValidMappingsLine(file, f, post_col) ==
    <<[what |-> "Valid mappings", file |-> file,
       mapped |-> ValidMappings(f, post_col), total |-> NRows(f)]>>

Step12 ==
    PrintingFileStep("step12", "step13", F_Cleaned_Q2, {"P201"},
                     LAMBDA f : add_post_info(f, "P201"), F_Q2_PostInfo,
                     LAMBDA f : ValidMappingsLine(F_Q2_PostInfo, f, "P201"))

Step13 ==
    PrintingFileStep("step13", "step14", F_Cleaned_Q3, {"P301"},
                     LAMBDA f : add_post_info(f, "P301"), F_Q3_PostInfo,
                     LAMBDA f : ValidMappingsLine(F_Q3_PostInfo, f, "P301"))

Step14 ==
    FileStep("step14", "step15", F_Q2_PostInfo, Range(SelectPost1),
             LAMBDA f : FinalPost(f, SelectPost1, RenamePost1, 1, "Post1"), F_Final_Post1)

Step15 ==
    FileStep("step15", "step16", F_Q3_PostInfo, Range(SelectPost2),
             LAMBDA f : FinalPost(f, SelectPost2, RenamePost2, 2, "Post2"), F_Final_Post2)

Step16 ==
    FileStep("step16", "step17", F_Final_Post1, ScoreColumns,
             LAMBDA f : AddEngagementScore(f), F_Score_Post1)

Step17 ==
    FileStep("step17", "step18", F_Final_Post2, ScoreColumns,
             LAMBDA f : AddEngagementScore(f), F_Score_Post2)

\* Step 18: the column check, then concat, RowID and merged_data.csv.
Step18 ==
    /\ pc = "step18"
    /\ UNCHANGED <<run, fsStart, console>>
    /\ IF \/ ~fs[F_Score_Post1].exists
          \/ ~fs[F_Score_Post2].exists
          \/ ~ColumnsMatch(ReadCsv(fs[F_Score_Post1]), ReadCsv(fs[F_Score_Post2]))
       THEN /\ Raise("step18")
            /\ Access(IF fs[F_Score_Post1].exists THEN {F_Score_Post1, F_Score_Post2}
                       ELSE {F_Score_Post1}, {})
       ELSE /\ Write(F_merged, MergePosts(ReadCsv(fs[F_Score_Post1]),
                                          ReadCsv(fs[F_Score_Post2])))
            /\ Access({F_Score_Post1, F_Score_Post2}, {F_merged})
            /\ pc' = "step19"
            /\ UNCHANGED <<mem, abortedAt>>

Step19 ==
    /\ pc = "step19"
    /\ UNCHANGED <<run, fsStart, console>>
    /\ IF ~fs[F_merged].exists \/ ~HasCols(ReadCsv(fs[F_merged]), {"Hashtags", "Caption_Length"})
       THEN Raise("step19") /\ Access({F_merged}, {})
       ELSE /\ Write(F_merged_all, AddPolynomialTerms(ReadCsv(fs[F_merged])))
            /\ Access({F_merged}, {F_merged_all})
            /\ pc' = "done"
            /\ UNCHANGED <<mem, abortedAt>>

\* standardization.py is started after preprocessing.py has ended.
StartStandardization ==
    /\ pc \in {"done", "aborted"}
    /\ pc' = "std1"
    /\ mem' = EmptyMem
    /\ UNCHANGED <<fs, abortedAt, run, fsStart, console, io>>

StdRaise ==
    /\ pc' = "std_aborted"
    /\ UNCHANGED <<fs, mem, abortedAt>>

\* Step 1: df = pd.read_csv('data/merged_data_with_all_columns.csv').
Std1 ==
    /\ pc = "std1"
    /\ UNCHANGED <<run, fsStart, console>>
    /\ Access({F_merged_all}, {})
    /\ IF ~fs[F_merged_all].exists
       THEN StdRaise
       ELSE /\ mem' = [mem EXCEPT !.df = ReadCsv(fs[F_merged_all])]
            /\ pc' = "std4"
            /\ UNCHANGED <<fs, abortedAt>>

\* Step 4: KeyError for an absent column; StandardScaler refuses a table
\* with no row (ValueError).
Std4 ==
    /\ pc = "std4"
    /\ UNCHANGED <<run, fsStart, console, io>>
    /\ IF ~HasCols(mem.df, Range(to_standardize)) \/ Len(mem.df.rows) = 0
       THEN StdRaise
       ELSE /\ mem' = [mem EXCEPT !.z_data = Standardize(mem.df)]
            /\ pc' = "std5"
            /\ UNCHANGED <<fs, abortedAt>>

Std5 ==
    /\ pc = "std5"
    /\ UNCHANGED <<run, fsStart, console, io>>
    /\ IF ~HasCols(mem.df, Range(categorical))
       THEN StdRaise
       ELSE /\ mem' = [mem EXCEPT !.dummy_data = get_dummies(SelectCols(mem.df, categorical))]
            /\ pc' = "std6"
            /\ UNCHANGED <<fs, abortedAt>>

Std6 ==
    /\ pc = "std6"
    /\ mem' = [mem EXCEPT !.df_ready = Combine(mem.df, mem.z_data, mem.dummy_data)]
    /\ pc' = "std7"
    /\ UNCHANGED <<fs, abortedAt, run, fsStart, console, io>>

Std7 ==
    /\ pc = "std7"
    /\ mem' = [mem EXCEPT !.df_ready = AddZTerms(mem.df_ready)]
    /\ pc' = "std8"
    /\ UNCHANGED <<fs, abortedAt, run, fsStart, console, io>>

Std8 ==
    /\ pc = "std8"
    /\ Write(F_FINAL, mem.df_ready)
    /\ Access({}, {F_FINAL})
    /\ pc' = "std_done"
    /\ UNCHANGED <<mem, abortedAt, run, fsStart, console>>

\* statistics.py is started after standardization.py has ended.
StartStatistics ==
    /\ pc \in {"std_done", "std_aborted"}
    /\ pc' = "stat1"
    /\ mem' = EmptyMem
    /\ UNCHANGED <<fs, abortedAt, run, fsStart, console, io>>

StatRaise ==
    /\ pc' = "stat_aborted"
    /\ UNCHANGED <<fs, mem, abortedAt, console>>

\* Step 1: df = pd.read_excel(file_path, skiprows=[1]).
Stat1 ==
    /\ pc = "stat1"
    /\ UNCHANGED <<run, fsStart>>
    /\ Access({F_original}, {})
    /\ IF ~fs[F_original].exists
       THEN StatRaise
       ELSE /\ mem' = [mem EXCEPT !.df = ReadExcelSkipRow1(fs[F_original])]
            /\ pc' = "stat2"
            /\ UNCHANGED <<fs, abortedAt, console>>

\* A step of statistics.py that computes findings from df; a column it
\* names and df lacks is a KeyError.
StatStep(here, next, Needs, Findings(_)) ==
    /\ pc = here
    /\ UNCHANGED <<run, fsStart, io>>
    /\ IF ~HasCols(mem.df, Needs)
       THEN StatRaise
       ELSE /\ mem' = [mem EXCEPT !.found = Findings(mem.df) @@ @]
            /\ pc' = next
            /\ UNCHANGED <<fs, abortedAt, console>>

\* Step 2: total_cases, finished_cases.
Stat2 ==
    StatStep("stat2", "stat3", {"FINISHED"}, Counts)

\* Step 3: the codes seen, different_codes, different_codes_pct.
Stat3 ==
    StatStep("stat3", "stat4", {"P201", "P301"},
             LAMBDA df : Randomization(df, mem.found.finished_cases))

\* Step 4: median and quartiles of TIME_SUM over the finished cases.
Stat4 ==
    StatStep("stat4", "stat5", {"FINISHED", "TIME_SUM"}, CompletionTime)

\* Step 5: mean of MISSING.
Stat5 ==
    StatStep("stat5", "stat6", {"MISSING"}, Missingness)

\* Step 6: the six findings are printed.
Stat6 ==
    /\ pc = "stat6"
    /\ console' = console \o <<Section44(mem.found)>>
    /\ pc' = "stat_done"
    /\ UNCHANGED <<fs, mem, abortedAt, run, fsStart, io>>

\* The three scripts are run once more on the same data/original.xlsx.
Rerun ==
    /\ pc \in {"stat_done", "stat_aborted"}
    /\ run = "first"
    /\ run' = "second"
    /\ pc' = "step1"
    /\ abortedAt' = "none"
    /\ mem' = EmptyMem
    /\ console' = <<>>
    /\ io' = NoIO
    /\ fsStart' = fs
    /\ UNCHANGED fs

\* ------------------------------------------------------------------ inputs
\* The columns of the survey export that the scripts name.
AllRawCols ==
    <<"SD01", "SD02_01", "SD10", "P101",
      "P201_CP", "P201", "P202", "P203", "P204", "P205", "P206",
      "P301_CP", "P301", "P302", "P303", "P304", "P305", "P306",
      "FINISHED", "TIME_SUM", "MISSING">>

\* One respondent: demographics, the platform flag, per condition
\* <<_CP, post code, interest, like, comment, share, attention check>>, and
\* <<FINISHED, TIME_SUM, MISSING>>.
RawRow(sd01, age, sd10, p101, q2, q3, stat) ==
    [SD01 |-> sd01, SD02_01 |-> age, SD10 |-> sd10, P101 |-> p101,
     P201_CP |-> q2[1], P201 |-> q2[2], P202 |-> q2[3], P203 |-> q2[4],
     P204 |-> q2[5], P205 |-> q2[6], P206 |-> q2[7],
     P301_CP |-> q3[1], P301 |-> q3[2], P302 |-> q3[3], P303 |-> q3[4],
     P304 |-> q3[5], P305 |-> q3[6], P306 |-> q3[7],
     FINISHED |-> stat[1], TIME_SUM |-> stat[2], MISSING |-> stat[3]]

\* Respondents that pass or fail each filter, with mapped, unmapped and
\* missing post codes and with missing answers; durations that are numbers,
\* text or missing.
RowPool ==
    { RawRow(V(1), V(23), V(1), V(1),
             <<V(1), V(3), V(4), V(4), V(3), V(5), V(3)>>,
             <<V(1), V(7), V(3), V(2), V(1), V(2), V(1)>>,
             <<V(1), Number(300), V(0)>>),
      RawRow(V(2), V(31), V(2), V(1),
             <<V(1), V(5), V(4), V(3), V(3), V(3), V(1)>>,
             <<V(1), V(13), V(5), V(3), NA, V(4), V(1)>>,
             <<V(1), Text, V(4)>>),
      RawRow(V(1), V(45), V(1), V(2),
             <<V(1), V(2), V(3), V(5), V(5), V(5), V(3)>>,
             <<V(1), V(9), V(4), V(1), V(2), V(3), V(1)>>,
             <<V(0), Number(45), V(50)>>),
      RawRow(V(2), V(27), V(3), V(1),
             <<V(1), V(12), V(5), V(2), V(1), V(2), V(3)>>,
             <<V(1), V(2), V(2), V(5), V(5), V(5), V(1)>>,
             <<V(1), Number(421), V(2)>>),
      RawRow(NA, V(40), V(2), V(1),
             <<V(1), NA, V(3), V(1), V(1), V(1), V(3)>>,
             <<V(1), V(1), V(4), V(5), V(4), V(3), V(1)>>,
             <<V(1), NA, NA>>),
      RawRow(V(2), V(31), V(2), V(1),
             <<V(1), V(5), V(4), V(3), V(3), V(3), V(1)>>,
             <<V(1), V(13), V(5), V(3), NA, V(4), V(1)>>,
             <<V(1), NA, V(4)>>) }

\* Exports that lack some of the columns.
MissingChoices ==
    { {}, {"P101"}, {"P206"}, {"P302"}, {"P201"}, {"P301"}, {"P201_CP", "SD10"}, {"P305"},
      {"P201_CP", "P301_CP"} }

SeqsUpTo(S, n) == UNION {[1..k -> S] : k \in 0..n}

RawTable(rows, missing) ==
    LET cols == SelectSeq(AllRawCols, LAMBDA c : c \notin missing)
    IN [exists |-> TRUE,
        cols |-> cols,
        rows |-> [i \in 1..Len(rows) |-> [c \in Range(cols) |-> rows[i][c]]]]

RawTables ==
    {RawTable(rows, missing) : rows \in SeqsUpTo(RowPool, MaxRows), missing \in MissingChoices}

\* The files a complete earlier run of both scripts leaves in data/.
CompleteRun(raw) ==
    LET ig == Filter(ReadCsv(raw), IsInstagram)
        q2 == DropIgnore(ig, columns_to_remove_q2)
        q3 == DropIgnore(ig, columns_to_remove_q3)
        c2 == AttentionFilter(ResetIndex(q2), "P206", 3, "P202")
        c3 == AttentionFilter(ResetIndex(q3), "P306", 1, "P302")
        i2 == add_post_info(ResetIndex(c2), "P201")
        i3 == add_post_info(ResetIndex(c3), "P301")
        p1 == FinalPost(i2, SelectPost1, RenamePost1, 1, "Post1")
        p2 == FinalPost(i3, SelectPost2, RenamePost2, 2, "Post2")
        s1 == AddEngagementScore(p1)
        s2 == AddEngagementScore(p2)
        m == MergePosts(s1, s2)
        ma == AddPolynomialTerms(m)
        final == AddZTerms(Combine(ma, Standardize(ma), get_dummies(SelectCols(ma, categorical))))
    IN F_original :> raw @@ F_IG_only :> ToCsv(Absent, ig) @@
       F_Q2 :> ToCsv(Absent, q2) @@ F_Q3 :> ToCsv(Absent, q3) @@
       F_Cleaned_Q2 :> ToCsv(Absent, c2) @@ F_Cleaned_Q3 :> ToCsv(Absent, c3) @@
       F_Q2_PostInfo :> ToCsv(Absent, i2) @@ F_Q3_PostInfo :> ToCsv(Absent, i3) @@
       F_Final_Post1 :> ToCsv(Absent, p1) @@ F_Final_Post2 :> ToCsv(Absent, p2) @@
       F_Score_Post1 :> ToCsv(Absent, s1) @@ F_Score_Post2 :> ToCsv(Absent, s2) @@
       F_merged :> ToCsv(Absent, m) @@ F_merged_all :> ToCsv(Absent, ma) @@
       F_FINAL :> ToCsv(Absent, final)

\* The export of the earlier run: one respondent who passes every filter.
EarlierRaw ==
    RawTable(<<RawRow(V(2), V(35), V(2), V(1),
                      <<V(1), V(6), V(5), V(5), V(4), V(4), V(3)>>,
                      <<V(1), V(10), V(3), V(2), V(2), V(1), V(1)>>,
                      <<V(1), Number(350), V(0)>>)>>, {})

Leftover == CompleteRun(EarlierRaw)

\* ---------------------------------------------------------- specifications
\* data/ holds the export and either nothing else or the files of an
\* earlier run.
Init ==
    /\ \E raw \in RawTables, stale \in BOOLEAN :
         fs = [f \in Files |->
                 IF f = F_original THEN raw
                 ELSE IF stale THEN Leftover[f] ELSE Absent]
    /\ fsStart = fs
    /\ pc = "step1"
    /\ mem = EmptyMem
    /\ abortedAt = "none"
    /\ run = "first"
    /\ console = <<>>
    /\ io = NoIO

Next ==
    \/ Step1 \/ Step3 \/ Step4 \/ Step5 \/ Step6 \/ Step7 \/ Step8 \/ Step9
    \/ Step12 \/ Step13 \/ Step14 \/ Step15 \/ Step16 \/ Step17 \/ Step18
    \/ Step19 \/ StartStandardization
    \/ Std1 \/ Std4 \/ Std5 \/ Std6 \/ Std7 \/ Std8
    \/ StartStatistics \/ Stat1 \/ Stat2 \/ Stat3 \/ Stat4 \/ Stat5 \/ Stat6
    \/ Rerun

Spec == Init /\ [][Next]_vars

\* Steps 16 and 17 alone, on a one-row table of every combination of
\* answers (1..5 or missing).
Likert == 1..5

Answers == {NA} \cup {V(k) : k \in Likert}

ScoreInput(label, post, like, comment, share) ==
    [exists |-> TRUE,
     cols |-> FinalColumns,
     rows |-> <<[c \in Range(FinalColumns) |->
                   CASE c = "RowID" -> V(label \o "_0")
                     [] c = "Post" -> V(post)
                     [] c = "Like Possibility" -> like
                     [] c = "Comment Possibility" -> comment
                     [] c = "Share Possibility" -> share
                     [] c = "Age" -> V(23)
                     [] c = "Caption_Length" -> V(140)
                     [] c = "Hashtags" -> V(5)
                     [] OTHER -> V(1)]>>]

InitScore ==
    /\ \E post \in {1, 2}, like \in Answers, comment \in Answers, share \in Answers :
         /\ fs = [f \in Files |->
                    IF post = 1 /\ f = F_Final_Post1
                    THEN ScoreInput("Post1", 1, like, comment, share)
                    ELSE IF post = 2 /\ f = F_Final_Post2
                    THEN ScoreInput("Post2", 2, like, comment, share)
                    ELSE Absent]
         /\ pc = IF post = 1 THEN "step16" ELSE "step17"
    /\ fsStart = fs
    /\ mem = EmptyMem
    /\ abortedAt = "none"
    /\ run = "first"
    /\ console = <<>>
    /\ io = NoIO

NextScore == Step16 \/ Step17

SpecScore == InitScore /\ [][NextScore]_vars

\* Steps 12 and 13 alone, on tables whose post code takes every value of
\* 0..13 or is missing.
PostCodes == {NA} \cup {V(k) : k \in 0..13}

CleanedInput(post_col, dropped, codes) ==
    LET cols == SelectSeq(AllRawCols, LAMBDA c : c \notin dropped)
    IN [exists |-> TRUE,
        cols |-> cols,
        rows |-> [i \in 1..Len(codes) |->
                    [c \in Range(cols) |->
                       IF c = post_col THEN codes[i]
                       ELSE IF c = "SD02_01" THEN V(20 + i)
                       ELSE V(1)]]]

InitMap ==
    /\ \E post \in {1, 2}, codes \in SeqsUpTo(PostCodes, MaxRows) :
         /\ fs = [f \in Files |->
                    IF post = 1 /\ f = F_Cleaned_Q2
                    THEN CleanedInput("P201", columns_to_remove_q2, codes)
                    ELSE IF post = 2 /\ f = F_Cleaned_Q3
                    THEN CleanedInput("P301", columns_to_remove_q3, codes)
                    ELSE Absent]
         /\ pc = IF post = 1 THEN "step12" ELSE "step13"
    /\ fsStart = fs
    /\ mem = EmptyMem
    /\ abortedAt = "none"
    /\ run = "first"
    /\ console = <<>>
    /\ io = NoIO

NextMap == Step12 \/ Step13

SpecMap == InitMap /\ [][NextMap]_vars

\* Step 18 alone, on two tables whose column lists agree or differ.
MergeColumns == FinalColumns \o <<"Engagement Intention Score">>

ColumnVariants ==
    { MergeColumns,
      \* two columns in the other order
      [i \in 1..Len(MergeColumns) |->
         IF i = 2 THEN MergeColumns[3] ELSE IF i = 3 THEN MergeColumns[2] ELSE MergeColumns[i]],
      \* a column under another name
      [i \in 1..Len(MergeColumns) |->
         IF MergeColumns[i] = "Hashtags" THEN "Hashtag" ELSE MergeColumns[i]],
      \* a column missing
      SelectSeq(MergeColumns, LAMBDA c : c # "Post"),
      \* a column added
      MergeColumns \o <<"Selection Criteria">> }

MergeInput(cols, label, marks) ==
    [exists |-> TRUE,
     cols |-> cols,
     rows |-> [i \in 1..Len(marks) |->
                 [c \in Range(cols) |->
                    IF c = "RowID" THEN V(label \o "_" \o ToString(i - 1)) ELSE V(marks[i])]]]

InitMerge ==
    /\ \E cols1 \in ColumnVariants, cols2 \in ColumnVariants,
          marks1 \in SeqsUpTo({1, 2}, MaxRows), marks2 \in SeqsUpTo({3, 4}, MaxRows),
          stale \in BOOLEAN :
         fs = [f \in Files |->
                 IF f = F_Score_Post1 THEN MergeInput(cols1, "Post1", marks1)
                 ELSE IF f = F_Score_Post2 THEN MergeInput(cols2, "Post2", marks2)
                 ELSE IF stale /\ f = F_merged THEN Leftover[f]
                 ELSE Absent]
    /\ pc = "step18"
    /\ fsStart = fs
    /\ mem = EmptyMem
    /\ abortedAt = "none"
    /\ run = "first"
    /\ console = <<>>
    /\ io = NoIO

NextMerge == Step18

SpecMerge == InitMerge /\ [][NextMerge]_vars

\* statistics.py alone, on sheets that hold the columns it names: finished
\* and unfinished cases, equal, different and missing codes, durations that
\* are numbers, text or missing.
StatCols == <<"FINISHED", "P201", "P301", "TIME_SUM", "MISSING">>

StatRow(finished, p201, p301, time_sum, missing) ==
    [FINISHED |-> finished, P201 |-> p201, P301 |-> p301,
     TIME_SUM |-> time_sum, MISSING |-> missing]

StatPool ==
    { StatRow(V(1), V(3), V(7), Number(300), V(0)),
      StatRow(V(1), V(5), V(5), Text, V(4)),
      StatRow(V(1), V(5), V(5), NA, V(4)),
      StatRow(V(1), V(2), V(9), NA, V(1)),
      StatRow(V(1), V(12), V(12), Number(421), V(2)),
      StatRow(V(0), NA, NA, Number(45), V(50)),
      StatRow(V(0), V(4), NA, Text, NA) }

\* The row under the header, which statistics.py does not read.
StatFirstRows ==
    { StatRow(V(0), NA, NA, NA, NA),
      StatRow(V(1), V(8), V(6), Number(512), V(0)) }

StatSheets ==
    {<<>>} \cup {<<first>> \o rows : first \in StatFirstRows, rows \in SeqsUpTo(StatPool, MaxRows)}

StatMissingChoices == {{}, {"FINISHED"}, {"P301"}, {"TIME_SUM"}, {"MISSING"}}

StatTable(rows, missing) ==
    LET cols == SelectSeq(StatCols, LAMBDA c : c \notin missing)
    IN [exists |-> TRUE,
        cols |-> cols,
        rows |-> [i \in 1..Len(rows) |-> [c \in Range(cols) |-> rows[i][c]]]]

StatTables == {StatTable(rows, missing) : rows \in StatSheets, missing \in StatMissingChoices}

InitStats ==
    /\ \E sheet \in StatTables :
         fs = [f \in Files |-> IF f = F_original THEN sheet ELSE Absent]
    /\ pc = "stat1"
    /\ fsStart = fs
    /\ mem = EmptyMem
    /\ abortedAt = "none"
    /\ run = "first"
    /\ console = <<>>
    /\ io = NoIO

NextStats == Stat1 \/ Stat2 \/ Stat3 \/ Stat4 \/ Stat5 \/ Stat6

SpecStats == InitStats /\ [][NextStats]_vars

\* The steps of preprocessing.py in the order they run, and the file each
\* writes.
PreSteps ==
    <<"step1", "step3", "step4", "step5", "step6", "step7", "step8", "step9",
      "step12", "step13", "step14", "step15", "step16", "step17", "step18", "step19">>

StepOutput ==
    [s \in Range(PreSteps) |->
       CASE s = "step4" -> {F_IG_only}
         [] s = "step6" -> {F_Q2}
         [] s = "step7" -> {F_Q3}
         [] s = "step8" -> {F_Cleaned_Q2}
         [] s = "step9" -> {F_Cleaned_Q3}
         [] s = "step12" -> {F_Q2_PostInfo}
         [] s = "step13" -> {F_Q3_PostInfo}
         [] s = "step14" -> {F_Final_Post1}
         [] s = "step15" -> {F_Final_Post2}
         [] s = "step16" -> {F_Score_Post1}
         [] s = "step17" -> {F_Score_Post2}
         [] s = "step18" -> {F_merged}
         [] s = "step19" -> {F_merged_all}
         [] OTHER -> {}]

\* ------------------------------------------------------------------ claims
ScoredFiles == {F_Score_Post1, F_Score_Post2}

RowsOf(file) == {file.rows[i] : i \in 1..Len(file.rows)}

Scored == UNION {RowsOf(fs[f]) : f \in {g \in ScoredFiles : fs[g].exists}}

\* The rows of every file that carries the score, from the scored Post1 and
\* Post2 files to the merged tables.
ScoredEndToEnd ==
    UNION {RowsOf(fs[f]) :
             f \in {g \in ScoredFiles \cup {F_merged, F_merged_all} : fs[g].exists}}

Is435(r) ==
    /\ r["Like Possibility"] = V(4)
    /\ r["Comment Possibility"] = V(3)
    /\ r["Share Possibility"] = V(5)

\* C1 (as amended): from the export to the merged table, a row with Like 4,
\* Comment 3, Share 5 has the Engagement Intention Score 10.81
\* (4*0.847 + 3*0.941 + 5*0.920 = 10.811).
C1_Score435Is1081 ==
    \A r \in ScoredEndToEnd : Is435(r) => r["Engagement Intention Score"] = V(1081)

\* C1 as stated: the score of that row is 10.84.
C1_Score435Is1084 ==
    \A r \in ScoredEndToEnd : Is435(r) => r["Engagement Intention Score"] = V(1084)

C1_Witness ==
    /\ pc = "done"
    /\ abortedAt = "none"
    /\ \E r \in RowsOf(fs[F_merged_all]) : Is435(r) /\ ~IsNA(r["Engagement Intention Score"])

AnyMissing(r) ==
    \/ IsNA(r["Like Possibility"])
    \/ IsNA(r["Comment Possibility"])
    \/ IsNA(r["Share Possibility"])

Thousandths(r) ==
    W_Like * r["Like Possibility"][1] + W_Comment * r["Comment Possibility"][1]
        + W_Share * r["Share Possibility"][1]

\* C5: the score is missing exactly when one of the three answers is
\* missing; otherwise it is the weighted sum to the nearest hundredth; and
\* computing the score again on a scored file gives the same file.
C5_NullPropagation ==
    /\ \A r \in Scored :
         /\ IsNA(r["Engagement Intention Score"]) <=> AnyMissing(r)
         /\ ~AnyMissing(r) =>
              /\ 10 * r["Engagement Intention Score"][1] - Thousandths(r) <= 5
              /\ Thousandths(r) - 10 * r["Engagement Intention Score"][1] <= 5
    /\ \A f \in ScoredFiles :
         fs[f].exists => ToCsv(fs[f], AddEngagementScore(ReadCsv(fs[f]))) = fs[f]

C5_Witness ==
    \E r \in Scored :
        /\ IsNA(r["Comment Possibility"])
        /\ ~IsNA(r["Like Possibility"])
        /\ ~IsNA(r["Share Possibility"])
        /\ IsNA(r["Engagement Intention Score"])

\* The caption length and hashtag count of post code k, 1..12: four lengths
\* cycle within each of three hashtag counts.
ExpectedCaption(k) == <<5, 70, 140, 200>>[((k - 1) % 4) + 1]

ExpectedHashtags(k) == <<5, 11, 15>>[((k - 1) \div 4) + 1]

MappedAs(in, out, post_col) ==
    /\ out.cols = in.cols \o <<"Caption_Length", "Hashtags">>
    /\ Len(out.rows) = Len(in.rows)
    /\ \A i \in 1..Len(in.rows) :
         /\ \A c \in Range(in.cols) : out.rows[i][c] = in.rows[i][c]
         /\ IF \E k \in 1..12 : in.rows[i][post_col] = V(k)
            THEN LET k == in.rows[i][post_col][1]
                 IN /\ out.rows[i]["Caption_Length"] = V(ExpectedCaption(k))
                    /\ out.rows[i]["Hashtags"] = V(ExpectedHashtags(k))
            ELSE /\ out.rows[i]["Caption_Length"] = NA
                 /\ out.rows[i]["Hashtags"] = NA
         /\ in.rows[i][post_col] = V(3) =>
              /\ out.rows[i]["Caption_Length"] = V(140)
              /\ out.rows[i]["Hashtags"] = V(5)

\* C2: add_post_info keeps every row, in order and unchanged, and adds the
\* pair of the table for a post code of 1..12 and two missing values for any
\* other or missing code; it raises nothing for any value of the code.
C2_MappingTotal ==
    /\ fs[F_Q2_PostInfo].exists => MappedAs(fs[F_Cleaned_Q2], fs[F_Q2_PostInfo], "P201")
    /\ fs[F_Q3_PostInfo].exists => MappedAs(fs[F_Cleaned_Q3], fs[F_Q3_PostInfo], "P301")
    /\ abortedAt = "step12" => ~fs[F_Cleaned_Q2].exists
    /\ abortedAt = "step13" => ~fs[F_Cleaned_Q3].exists
    /\ pc = "step13" /\ fs[F_Cleaned_Q2].exists => fs[F_Q2_PostInfo].exists
    /\ pc = "step14" => fs[F_Q3_PostInfo].exists

C2_Witness ==
    /\ fs[F_Q2_PostInfo].exists
    /\ \E i, j \in 1..Len(fs[F_Q2_PostInfo].rows) :
         /\ fs[F_Q2_PostInfo].rows[i]["P201"] = V(3)
         /\ fs[F_Q2_PostInfo].rows[i]["Hashtags"] = V(5)
         /\ fs[F_Q2_PostInfo].rows[j]["P201"] = V(13)
         /\ fs[F_Q2_PostInfo].rows[j]["Hashtags"] = NA

\* C3: step 18 merges exactly when the two column lists are equal element by
\* element; otherwise it raises and merged_data.csv is left as it was.
C3_SchemaMismatchFatal ==
    pc # "step18" =>
        IF fs[F_Score_Post1].cols = fs[F_Score_Post2].cols
        THEN /\ pc = "step19"
             /\ fs[F_merged].exists
             /\ Len(fs[F_merged].rows) = Len(fs[F_Score_Post1].rows) + Len(fs[F_Score_Post2].rows)
        ELSE /\ pc = "aborted"
             /\ abortedAt = "step18"
             /\ fs[F_merged] = fsStart[F_merged]

C3_Witness ==
    /\ pc = "aborted"
    /\ abortedAt = "step18"
    /\ Range(fs[F_Score_Post1].cols) = Range(fs[F_Score_Post2].cols)
    /\ fs[F_Score_Post1].cols # fs[F_Score_Post2].cols
    /\ Len(fs[F_Score_Post1].rows) > 0
    /\ Len(fs[F_Score_Post2].rows) > 0

Pos(step) == CHOOSE k \in 1..Len(PreSteps) : PreSteps[k] = step

\* How far preprocessing.py got in this run: the step it is at, the step
\* that raised, or past the last step.
Progress ==
    IF abortedAt # "none" THEN Pos(abortedAt)
    ELSE IF pc \in Range(PreSteps) THEN Pos(pc)
    ELSE Len(PreSteps) + 1

Completed(step) == Progress > Pos(step)

RawCols == Range(fs[F_original].cols)

DroppedFrom(in, out, drop) ==
    /\ out.exists
    /\ out.cols = SelectSeq(fs[F_original].cols, LAMBDA c : c \notin drop)
    /\ Len(out.rows) = Len(in.rows)
    /\ \A i \in 1..Len(in.rows) : \A c \in Range(out.cols) : out.rows[i][c] = in.rows[i][c]

StopsBefore(needed, step, out) ==
    ~(needed \subseteq RawCols) => ~Completed(step) /\ fs[out] = fsStart[out]

\* C6: steps 6 and 7 never raise, whichever columns of the drop lists are
\* absent, and leave the other columns as they were; a filter (steps 3, 8, 9)
\* or a selection (steps 14, 15) that names an absent column never completes
\* and writes nothing.
C6_ColumnProjection ==
    /\ abortedAt \notin {"step6", "step7"}
    /\ Completed("step6") => DroppedFrom(fs[F_IG_only], fs[F_Q2], columns_to_remove_q2)
    /\ Completed("step7") => DroppedFrom(fs[F_IG_only], fs[F_Q3], columns_to_remove_q3)
    /\ StopsBefore({"P101"}, "step3", F_IG_only)
    /\ StopsBefore({"P206", "P202"}, "step8", F_Cleaned_Q2)
    /\ StopsBefore({"P306", "P302"}, "step9", F_Cleaned_Q3)
    /\ StopsBefore(Range(SelectPost1) \ {"Caption_Length", "Hashtags"}, "step14", F_Final_Post1)
    /\ StopsBefore(Range(SelectPost2) \ {"Caption_Length", "Hashtags"}, "step15", F_Final_Post2)

C6_Witness ==
    /\ "P201_CP" \notin RawCols
    /\ Completed("step7")
    /\ Len(fs[F_Q3].rows) > 0
    /\ abortedAt = "step14"

\* C7: merged_data.csv holds the rows of the Post1 file then those of the
\* Post2 file, each as it was, with RowID Row_0 .. Row_(n-1) as first column.
C7_MergeOrder ==
    Completed("step18") =>
        LET a == fs[F_Score_Post1]
            b == fs[F_Score_Post2]
            m == fs[F_merged]
            other == Range(a.cols) \ {"RowID"}
        IN /\ Len(m.rows) = Len(a.rows) + Len(b.rows)
           /\ m.cols[1] = "RowID"
           /\ Range(m.cols) = Range(a.cols)
           /\ \A i \in 1..Len(a.rows) : \A c \in other : m.rows[i][c] = a.rows[i][c]
           /\ \A i \in 1..Len(b.rows) : \A c \in other : m.rows[Len(a.rows) + i][c] = b.rows[i][c]
           /\ \A i \in 1..Len(m.rows) : m.rows[i]["RowID"] = V("Row_" \o ToString(i - 1))
           /\ \A i, j \in 1..Len(m.rows) : m.rows[i]["RowID"] = m.rows[j]["RowID"] => i = j

C7_Witness ==
    /\ Completed("step18")
    /\ Len(fs[F_Score_Post1].rows) > 1
    /\ Len(fs[F_Score_Post2].rows) > 0
    /\ fs[F_merged].rows[3]["Post"] = V(2)

\* C8: once a step of preprocessing.py has raised, no step of it runs and
\* the files that step and the later steps write are as they were when the
\* run started; the same for standardization.py and its output.
C8_NoPartialOutput ==
    /\ abortedAt # "none" =>
         /\ pc \notin Range(PreSteps) \cup {"done"}
         /\ \A k \in Pos(abortedAt)..Len(PreSteps) :
              \A f \in StepOutput[PreSteps[k]] : fs[f] = fsStart[f]
    /\ pc = "std_aborted" => fs[F_FINAL] = fsStart[F_FINAL]

C8_Witness ==
    /\ pc = "aborted"
    /\ abortedAt = "step12"
    /\ fsStart[F_Q2_PostInfo].exists
    /\ fs[F_Cleaned_Q2] # fsStart[F_Cleaned_Q2]

\* C9: a second run on the same export leaves every file as the first run
\* left it, and no run changes the export.
C9_RerunIdempotent ==
    /\ fs[F_original] = fsStart[F_original]
    /\ run = "second"
       /\ pc \in {"done", "aborted", "std_done", "std_aborted", "stat_done", "stat_aborted"}
       => fs = fsStart

C9_Witness ==
    /\ run = "second"
    /\ pc = "std_done"
    /\ abortedAt = "none"
    /\ Len(fs[F_FINAL].rows) > 1

ZColumn(col) == Column(fs[F_FINAL], "z_" \o col)

SourceColumn(col) == Column(fs[F_merged_all], col)

Varies(xs) == \E i, j \in 1..Len(xs) : xs[i] # xs[j]

SumOfSquaresIs(col, n) ==
    LET zs == Present(ZColumn(col))
    IN \/ zs = <<>> /\ n = 0
       \/ /\ zs # <<>>
          /\ \A i \in 1..Len(zs) : zs[i].sqden = zs[1].sqden
          /\ SumSeq([i \in 1..Len(zs) |-> zs[i].sqnum]) = n * zs[1].sqden

ZFollowsSource(col) ==
    LET xs == Present(SourceColumn(col))
    IN \A i \in 1..Len(fs[F_FINAL].rows) :
         /\ IsNA(ZColumn(col)[i]) <=> IsNA(SourceColumn(col)[i])
         /\ ~IsNA(SourceColumn(col)[i]) =>
              ZColumn(col)[i][1].sign = Sign(Len(xs) * SourceColumn(col)[i][1] - SumSeq(xs))

\* C10 (as amended): each z_ value has the sign of value - column mean and is
\* scaled by the population standard deviation (denominator n), so the
\* squares of a z_ column over its n present values sum to n (to 0 when the
\* column is constant).
C10_PopulationStd ==
    pc = "std_done" =>
        \A k \in 1..Len(to_standardize) :
            /\ ZFollowsSource(to_standardize[k])
            /\ IF Varies(Present(SourceColumn(to_standardize[k])))
               THEN SumOfSquaresIs(to_standardize[k], Len(Present(SourceColumn(to_standardize[k]))))
               ELSE SumOfSquaresIs(to_standardize[k], 0)

\* C10 as stated: the standard deviation has denominator n - 1, so the
\* squares of a z_ column sum to n - 1.
C10_SampleStd ==
    pc = "std_done" /\ abortedAt = "none" =>
        \A k \in 1..Len(to_standardize) :
            /\ ZFollowsSource(to_standardize[k])
            /\ Varies(Present(SourceColumn(to_standardize[k]))) =>
                 SumOfSquaresIs(to_standardize[k], Len(Present(SourceColumn(to_standardize[k]))) - 1)

C10_Witness ==
    /\ pc = "std_done"
    /\ Len(Present(SourceColumn("Age"))) > 2
    /\ Varies(Present(SourceColumn("Age")))
    /\ \E i \in 1..Len(fs[F_FINAL].rows) : IsNA(ZColumn("Engagement Intention Score")[i])

Categories(c) == Range(Present(SourceColumn(c)))

Indicators(c) == {v \in Categories(c) : DummyName(c, v) \in Range(fs[F_FINAL].cols)}

\* C4: in FINAL_data_for_regression.csv each of Gender, Occupation, Post and
\* Image Drawn is replaced by k-1 indicator columns of 0 and 1 for its k
\* observed values, at most one of them 1 in a row, none for the smallest.
C4_OneHot ==
    pc = "std_done" /\ abortedAt = "none" =>
        \A k \in 1..Len(categorical) :
            LET c == categorical[k]
                first == CHOOSE v \in Categories(c) : \A w \in Categories(c) : v <= w
            IN /\ c \notin Range(fs[F_FINAL].cols)
               /\ Categories(c) # {} => Cardinality(Indicators(c)) = Cardinality(Categories(c)) - 1
               /\ \A i \in 1..Len(fs[F_FINAL].rows) :
                    /\ \A v \in Indicators(c) : fs[F_FINAL].rows[i][DummyName(c, v)] \in {V(0), V(1)}
                    /\ Cardinality({v \in Indicators(c) :
                                      fs[F_FINAL].rows[i][DummyName(c, v)] = V(1)}) <= 1
                    /\ SourceColumn(c)[i] = V(first) =>
                         \A v \in Indicators(c) : fs[F_FINAL].rows[i][DummyName(c, v)] = V(0)

\* The strictly increasing maps of 1..n into 1..m.
Embeddings(n, m) ==
    {j \in [1..n -> 1..m] : \A a, b \in 1..n : a < b => j[a] < j[b]}

\* The given rows are, in order and each at most once, rows of the export
\* that satisfy Keep, restricted to the columns named by Same (a map from
\* the column of the given rows to the column of the export).
FilteredFromRaw(rows, Same, Keep(_)) ==
    \E j \in Embeddings(Len(rows), Len(fs[F_original].rows)) :
        \A i \in 1..Len(rows) :
            /\ Keep(fs[F_original].rows[j[i]])
            /\ \A c \in DOMAIN Same : rows[i][c] = fs[F_original].rows[j[i]][Same[c]]

SameNames(cols) == [c \in Range(cols) |-> c]

PassesQ2(r) == r["P101"] = V(1) /\ r["P206"] = V(3) /\ r["P202"] \in {V(3), V(4), V(5)}

PassesQ3(r) == r["P101"] = V(1) /\ r["P306"] = V(1) /\ r["P302"] \in {V(3), V(4), V(5)}

\* The rows of merged_data.csv of one condition, in order.
MergedOf(post) == SelectSeq(fs[F_merged].rows, LAMBDA r : r["Post"] = V(post))

\* The answers of a merged row, by the export column they were read from.
AnswersPost1 ==
    [c \in {"Post Interest", "Like Possibility", "Comment Possibility", "Share Possibility"} |->
       CHOOSE raw \in DOMAIN RenamePost1 : RenamePost1[raw] = c]

AnswersPost2 ==
    [c \in {"Post Interest", "Like Possibility", "Comment Possibility", "Share Possibility"} |->
       CHOOSE raw \in DOMAIN RenamePost2 : RenamePost2[raw] = c]

\* C11: the rows of IG_only.csv, Cleaned_Q2.csv and Cleaned_Q3.csv are rows
\* of the export that satisfy the filter (P101 = 1; and P206 = 3 with P202 in
\* {3,4,5}; and P306 = 1 with P302 in {3,4,5}), in the export's order and
\* each taken at most once; |Cleaned_Qx| <= |Qx| = |IG_only| <= |export|; and
\* the rows of one condition in merged_data.csv are as many as the cleaned
\* rows of that condition, again one export row each.
C11_FilterContract ==
    /\ Completed("step4") =>
          /\ FilteredFromRaw(fs[F_IG_only].rows, SameNames(fs[F_IG_only].cols), IsInstagram)
          /\ Len(fs[F_IG_only].rows) <= Len(fs[F_original].rows)
    /\ Completed("step6") => Len(fs[F_Q2].rows) = Len(fs[F_IG_only].rows)
    /\ Completed("step7") => Len(fs[F_Q3].rows) = Len(fs[F_IG_only].rows)
    /\ Completed("step8") =>
          /\ FilteredFromRaw(fs[F_Cleaned_Q2].rows, SameNames(fs[F_Cleaned_Q2].cols), PassesQ2)
          /\ Len(fs[F_Cleaned_Q2].rows) <= Len(fs[F_Q2].rows)
    /\ Completed("step9") =>
          /\ FilteredFromRaw(fs[F_Cleaned_Q3].rows, SameNames(fs[F_Cleaned_Q3].cols), PassesQ3)
          /\ Len(fs[F_Cleaned_Q3].rows) <= Len(fs[F_Q3].rows)
    /\ Completed("step18") =>
          /\ Len(MergedOf(1)) = Len(fs[F_Cleaned_Q2].rows)
          /\ Len(MergedOf(2)) = Len(fs[F_Cleaned_Q3].rows)
          /\ FilteredFromRaw(MergedOf(1), AnswersPost1, PassesQ2)
          /\ FilteredFromRaw(MergedOf(2), AnswersPost2, PassesQ3)

\* A run in which two respondents pass the filters of the first condition
\* and the filter of the second condition removes one of them.
C11_Witness ==
    /\ Completed("step18")
    /\ Len(fs[F_Cleaned_Q2].rows) = 2
    /\ fs[F_Cleaned_Q2].rows[1] # fs[F_Cleaned_Q2].rows[2]
    /\ Len(fs[F_Cleaned_Q3].rows) = 1
    /\ Len(fs[F_Q3].rows) = 2
    /\ Len(MergedOf(1)) = 2

\* The report of statistics.py, once it is printed.
Report == console[Len(console)]

Reported == pc = "stat_done"

\* The rows statistics.py read.
StatRows == ReadExcelSkipRow1(fs[F_original]).rows

\* The rows of a withPostInfo file whose derived fields are null.
Unmapped(file) ==
    Cardinality({i \in 1..Len(file.rows) :
                   IsNA(file.rows[i]["Caption_Length"]) /\ IsNA(file.rows[i]["Hashtags"])})

\* The printed mapped-versus-total count of a withPostInfo file tells how
\* many of its rows are unmapped.
UnmappedReported(name) ==
    \E i \in 1..Len(console) :
        /\ console[i].what = "Valid mappings"
        /\ console[i].file = name
        /\ console[i].total = Len(fs[name].rows)
        /\ console[i].total - console[i].mapped = Unmapped(fs[name])

\* The durations of finished cases that the numeric conversion turned into
\* NaN.
CoercionFailures(file) ==
    LET df == ReadExcelSkipRow1(file)
    IN Cardinality({i \in 1..NRows(df) :
                      /\ IsFinished(df.rows[i])
                      /\ ~IsNA(df.rows[i]["TIME_SUM"])
                      /\ IsNA(to_numeric(df.rows[i]["TIME_SUM"]))})

\* The report tells how many conversions failed: no other sheet with the
\* same report has a different number of them.
CoercionFailuresReported ==
    \A sheet \in RawTables :
        sheet.cols = fs[F_original].cols /\ ReportOf(sheet) = Report
        => CoercionFailures(sheet) = CoercionFailures(fs[F_original])

\* C12: once step 12 (13) is done, the number of rows of its file with null
\* derived fields is total minus mapped of the printed count; the report of
\* statistics.py, run after the two other scripts have completed, tells how
\* many durations of finished cases failed the numeric conversion; steps 12
\* and 13 raise only for an absent post code column and statistics.py only
\* for an absent column.
C12_AnomaliesReported ==
    /\ Completed("step12") => UnmappedReported(F_Q2_PostInfo)
    /\ Completed("step13") => UnmappedReported(F_Q3_PostInfo)
    /\ Reported /\ abortedAt = "none" => CoercionFailuresReported
    /\ abortedAt = "step12" => "P201" \notin RawCols
    /\ abortedAt = "step13" => "P301" \notin RawCols
    /\ pc = "stat_aborted" => ~({"FINISHED", "P201", "P301", "TIME_SUM", "MISSING"} \subseteq RawCols)

\* The rows read in which P201 and P301 hold different values; a row where
\* both are missing holds none.
RowsThatDiffer ==
    {i \in 1..Len(StatRows) :
        /\ ~(IsNA(StatRows[i]["P201"]) /\ IsNA(StatRows[i]["P301"]))
        /\ StatRows[i]["P201"] # StatRows[i]["P301"]}

\* count out of "of" as a percentage with one decimal, in tenths.
Percentage(count, of) ==
    IF of > 0 THEN (2000 * count + of) \div (2 * of) ELSE 0

\* C13: finding 4 reports the number of rows read whose P201 and P301 hold
\* different values, a row with both missing not among them, and that
\* number as a percentage of the rows read, which is between 0 and 100.
C13_DifferentCodes ==
    Reported =>
        /\ Report.different_codes = Cardinality(RowsThatDiffer)
        /\ Report.different_codes_pct = Percentage(Cardinality(RowsThatDiffer), Len(StatRows))
        /\ Report.different_codes_pct \in 0..1000

\* The files one step writes for a later step to read.
Intermediate == Files \ {F_original, F_IG_only, F_FINAL}

\* C14 (as stated): every intermediate file a step of preprocessing.py or
\* standardization.py has read was written before by a step of the same
\* execution: none was left over from an earlier run, none was missing.
C14_ProducerBeforeConsumer ==
    \A r \in io.read : r.file \in Intermediate => r.was = "written"

\* C14 (as amended): every intermediate file a step of preprocessing.py has
\* read was written before by a step of the same execution, and so was
\* merged_data_with_all_columns.csv when standardization.py read it after
\* preprocessing.py ran to its end; after preprocessing.py aborted,
\* standardization.py found that file left over from an earlier run or
\* missing.
C14_ProducerBeforeConsumerUnlessAborted ==
    \A r \in io.read :
        r.file \in Intermediate =>
            IF r.by \in Range(PreSteps) \/ abortedAt = "none"
            THEN r.was = "written"
            ELSE r.by = "std1" /\ r.file = F_merged_all /\ r.was \in {"left over", "missing"}

\* preprocessing.py aborted at step 12 after step 8 had read the Q2.csv of
\* this execution, and standardization.py then completed on the
\* merged_data_with_all_columns.csv of an earlier run.
C14_Witness ==
    /\ pc = "std_done"
    /\ abortedAt = "step12"
    /\ [by |-> "step8", file |-> F_Q2, was |-> "written"] \in io.read
    /\ [by |-> "std1", file |-> F_merged_all, was |-> "left over"] \in io.read
    /\ fs[F_FINAL] = Leftover[F_FINAL]

====
